---------------------------- MODULE Spec2Model ----------------------------
(***************************************************************************)
(* SkyWings Airlines backend: the booking / check-in ledger.               *)
(*                                                                         *)
(* The relational store (schema.sql) is modelled as the committed tables   *)
(* aircraft, flights, bookings, passengers, booking_passengers (links)     *)
(* and check_ins.  Every HTTP handler is a process that takes one step per *)
(* awaited database statement (or per run of statements whose interleaving *)
(* cannot be observed); a handler that uses connection.beginTransaction()  *)
(* keeps its uncommitted rows in tx[r] until connection.commit().          *)
(*                                                                         *)
(* Store semantics (MySQL/InnoDB, the engine schema.sql declares):         *)
(*  - REPEATABLE READ: the plain SELECTs of one transaction read the       *)
(*    snapshot taken by its first SELECT, so they are one step.            *)
(*  - rows written by an open transaction are invisible to every other     *)
(*    connection until commit; rollback discards them.                     *)
(*  - AUTO_INCREMENT keys are modelled as the row's position in the table; *)
(*    rows are numbered in commit order.                                   *)
(*  - a value outside a column's ENUM is rejected when the server runs in  *)
(*    strict SQL mode and stored as the empty string otherwise; the mode   *)
(*    is a property of the deployment (sqlStrict).                         *)
(*  - a UNIQUE key checks committed rows (duplicate-key error) and waits   *)
(*    for an open transaction that holds the same key.                     *)
(* Time is counted in minutes, money in whole units of the DECIMAL(10,2)  *)
(* columns.                                                                *)
(***************************************************************************)
EXTENDS Integers, Sequences, FiniteSets, TLC

VARIABLES aircraft, flights, bookings, passengers, links, check_ins,
          now, rq, tx, resp, inUse, sqlStrict

tables == <<aircraft, flights, bookings, passengers, links, check_ins>>
vars == <<aircraft, flights, bookings, passengers, links, check_ins,
          now, rq, tx, resp, inUse, sqlStrict>>

---------------------------------------------------------------------------
(* Bounds of the model *)

\* rows the bookings table may hold
MaxBookings == 2
\* largest capacity an administrator sets in the model
MaxCapacity == 2

(* Program constants *)

\* database.js: connectionLimit
ConnectionLimit == 10
\* checkin: hoursUntilDeparture > 24
WindowHours == 24
\* checkin: boardingTime = departure - 30 * 60 * 1000 ms
BoardingLeadMinutes == 30
MinutesPerHour == 60

\* the requests that may be in flight at the same time
Reqs == {1, 2}
Users == {1, 2}
AircraftIds == {1, 2}
FlightIds == {1}
\* schema.sql ENUM domains
BookingStatusEnum == {"pending", "confirmed", "cancelled", "completed"}
PaymentStatusEnum == {"pending", "paid", "refunded"}
ClassEnum == {"economy", "business", "first"}
FlightStatusEnum == {"scheduled", "delayed", "cancelled", "completed", "boarding"}

\* SQL NULL for seat_number; a seat number is a sequence of characters
NullSeat == <<>>
\* parseInt(...) of a non-numeric id
NaN == -1

---------------------------------------------------------------------------
(* Helpers *)

Range(s) == {s[k] : k \in 1..Len(s)}

\* value an ENUM column takes for v in non-strict mode
EnumStore(v, enum) == IF v \in enum THEN v ELSE ""

\* String.prototype.toUpperCase on one character
UpperChar(c) ==
  CASE c = "a" -> "A"
    [] c = "b" -> "B"
    [] OTHER -> c

RECURSIVE TrimLeft(_)
TrimLeft(s) == IF s # <<>> /\ Head(s) = " " THEN TrimLeft(Tail(s)) ELSE s

RECURSIVE TrimRight(_)
TrimRight(s) ==
  IF s # <<>> /\ s[Len(s)] = " " THEN TrimRight(SubSeq(s, 1, Len(s) - 1)) ELSE s

\* String.prototype.trim
Trim(s) == TrimRight(TrimLeft(s))

\* seat_numbers[i].trim().toUpperCase()
ToUpperCase(s) == [k \in 1..Len(s) |-> UpperChar(s[k])]

\* variant: the comparison without LOWER
LowerOmitted(n) == n

\* LOWER(...) of a last name; names are modelled by a few literals
Lower(n) ==
  CASE n = "LEE" -> "lee"
    [] n = "Lee" -> "lee"
    [] n = "KIM" -> "kim"
    [] n = "Kim" -> "kim"
    [] OTHER -> n

\* variant: the base price whatever the class
FarePriceBase(fl, cls) == fl.base_price

\* the SQL CASE of POST /create: the per-seat price for the requested class
FarePrice(fl, cls) ==
  CASE cls = "economy" -> fl.base_price
    [] cls = "business" -> fl.business_price
    [] cls = "first" -> fl.first_class_price
    [] OTHER -> fl.base_price

\* booking_passengers rows of booking b, ordered by booking_passenger_id
LinkIdsOf(b) == {k \in 1..Len(links) : links[k].booking_id = b}

\* variant: the count takes the bookings of the flight, not their passengers
BookedSeatsPerBooking(f) ==
  Cardinality({b \in 1..Len(bookings) :
                 bookings[b].flight_id = f /\ bookings[b].status # "cancelled"})

\* variant: the count also sees the passenger links that open transactions
\* have inserted for the flight (a locking or serializable read)
BookedSeatsWithOpen(f) ==
  Cardinality({k \in 1..Len(links) :
                 /\ bookings[links[k].booking_id].flight_id = f
                 /\ bookings[links[k].booking_id].status # "cancelled"})
    + Len(tx[1].links) + Len(tx[2].links)

\* SELECT COUNT(*) FROM booking_passengers bp JOIN bookings b ...
\*   WHERE b.flight_id = ? AND b.status != 'cancelled'
BookedSeats(f) ==
  Cardinality({k \in 1..Len(links) :
                 /\ bookings[links[k].booking_id].flight_id = f
                 /\ bookings[links[k].booking_id].status # "cancelled"})

\* variant: the count also takes the passengers of cancelled bookings
AvailableSeatsGross(f) ==
  aircraft[flights[f].aircraft_id].capacity
    - Cardinality({k \in 1..Len(links) : bookings[links[k].booking_id].flight_id = f})

\* flightData.capacity - booked
AvailableSeats(f) == aircraft[flights[f].aircraft_id].capacity - BookedSeats(f)

\* GET /api/flights/search: flight.available_seats =
\* Math.max(0, flight.capacity - booked), booked counted as in POST /create
available_seats(f) ==
  LET free == aircraft[flights[f].aircraft_id].capacity - BookedSeats(f)
  IN IF free > 0 THEN free ELSE 0

\* POST /search: (departureTime - now) / (1000 * 60 * 60) < 0
Departed(dep, t) == dep - t < 0
\* POST /search: hoursUntilDeparture > 24
TooEarly(dep, t) == dep - t > WindowHours * MinutesPerHour

\* variant: the window closes to confirm at 24 hours sharp
ConfirmTooEarlyAtLimit(dep, t) == dep - t >= WindowHours * MinutesPerHour

\* POST /confirm: hoursUntilDeparture < 0
ConfirmDeparted(dep, t) == dep - t < 0
\* POST /confirm: hoursUntilDeparture > 24
ConfirmTooEarly(dep, t) == dep - t > WindowHours * MinutesPerHour

---------------------------------------------------------------------------
(* Requests *)

NoArgs ==
  [op |-> "idle", pc |-> "idle", user |-> 0, flight_id |-> 0,
   passengers |-> <<>>, class |-> "", booking_id |-> 0, seat_numbers |-> <<>>,
   booking_reference |-> "", last_name |-> "", price |-> 0, departure |-> 0,
   i |-> 0]

EmptyTx == [booking |-> <<>>, passengers |-> <<>>, links |-> <<>>,
            check_in |-> <<>>, seats |-> <<>>]

\* the response the last step sent, if it sent one: its kind, for a
\* capacity error the count in its message, the alreadyCheckedIn flag, the
\* passenger list (passenger ids) of its data and, for the 500 of check-in
\* confirm, the fixed part of its message
NoResp ==
  [kind |-> "none", remaining |-> 0, alreadyCheckedIn |-> FALSE,
   passengers |-> <<>>, message |-> ""]

Reply(kind) ==
  [kind |-> kind, remaining |-> 0, alreadyCheckedIn |-> FALSE,
   passengers |-> <<>>, message |-> ""]

\* res.status(500).json({message: 'Check-in confirmation failed: ' + ...})
ConfirmFailed ==
  [Reply("Internal") EXCEPT !.message = "Check-in confirmation failed"]

\* the slot runs no request
Free(r) == rq[r].pc = "idle"

Init ==
  /\ aircraft = [a \in AircraftIds |-> [capacity |-> IF a = 1 THEN 2 ELSE 1]]
  /\ flights = [f \in FlightIds |->
                  [aircraft_id |-> 1, status |-> "scheduled",
                   base_price |-> 100, business_price |-> 250,
                   first_class_price |-> 400,
                   departure_datetime |-> 1500]]
  /\ bookings = <<>>
  /\ passengers = <<>>
  /\ links = <<>>
  /\ check_ins = <<>>
  /\ now = 0
  /\ rq = [r \in Reqs |-> NoArgs]
  /\ tx = [r \in Reqs |-> EmptyTx]
  /\ resp = NoResp
  /\ inUse = 0
  /\ sqlStrict \in BOOLEAN


---------------------------------------------------------------------------
(* The store *)

\* variant: booking_reference without its UNIQUE key
RefCommittedNever(ref) == FALSE

\* bookings.booking_reference is UNIQUE: a committed row holds the key
RefCommitted(ref) == \E b \in 1..Len(bookings) : bookings[b].booking_reference = ref

\* ... or a transaction still open has inserted it (the INSERT waits)
RefPending(r, ref) ==
  \E o \in DOMAIN rq \ {r} :
    /\ tx[o].booking # <<>>
    /\ tx[o].booking[1].booking_reference = ref

\* check_ins.booking_id is UNIQUE
CheckInCommitted(b) == \E c \in 1..Len(check_ins) : check_ins[c].booking_id = b

CheckInPending(r, b) ==
  \E o \in DOMAIN rq \ {r} :
    /\ tx[o].check_in # <<>>
    /\ tx[o].check_in[1].booking_id = b

\* booking_passengers.passenger_id REFERENCES passengers(passenger_id)
PassengerExists(p) == p \in 1..Len(passengers)

\* variant: the handler releases the connection without rolling back
RollbackOmitted(r) == tx' = tx

\* connection.rollback(): the uncommitted rows of the transaction are dropped
Rollback(r) == tx' = [tx EXCEPT ![r] = EmptyTx]

\* the rows of an open create-booking transaction, numbered at commit:
\* a link to a passenger inserted by the same transaction carries -k for the
\* k-th such passenger
CommittedLinks(t, bookingId) ==
  [k \in 1..Len(t.links) |->
     [booking_id |-> bookingId,
      passenger_id |-> IF t.links[k].passenger_id < 0
                         THEN Len(passengers) - t.links[k].passenger_id
                         ELSE t.links[k].passenger_id,
      seat_number |-> t.links[k].seat_number]]

\* UPDATE booking_passengers SET seat_number = ? WHERE booking_passenger_id = ?
\* for each buffered <<link id, seat>> of the transaction
SeatsApplied(t) ==
  [k \in 1..Len(links) |->
     IF \E j \in 1..Len(t.seats) : t.seats[j][1] = k
       THEN [links[k] EXCEPT !.seat_number =
               t.seats[CHOOSE j \in 1..Len(t.seats) : t.seats[j][1] = k][2]]
       ELSE links[k]]

\* connection.commit(): every buffered row becomes visible at once
Commit(r) ==
  /\ bookings' = bookings \o tx[r].booking
  /\ passengers' = passengers \o tx[r].passengers
  /\ links' = SeatsApplied(tx[r]) \o CommittedLinks(tx[r], Len(bookings) + 1)
  /\ check_ins' = check_ins \o tx[r].check_in
  /\ tx' = [tx EXCEPT ![r] = EmptyTx]

\* variant: the response is sent but the connection is not released
RespondKeeping(r, reply) ==
  /\ resp' = reply
  /\ rq' = [rq EXCEPT ![r] = NoArgs]
  /\ inUse' = inUse

\* } finally { connection.release() } together with the response
Respond(r, reply) ==
  /\ resp' = reply
  /\ rq' = [rq EXCEPT ![r] = NoArgs]
  /\ inUse' = inUse - 1

\* creates that may still add a booking row
OpenCreates == Cardinality({r \in DOMAIN rq : rq[r].op = "create"})

---------------------------------------------------------------------------
(* POST /api/bookings/create *)

\* getConnection, beginTransaction, validation, SELECT flight (with the price
\* CASE), SELECT COUNT booked seats, capacity check
CreateSelect(r, u, f, ps, cls) ==
  /\ Free(r)
  /\ inUse < ConnectionLimit
  /\ UNCHANGED <<tables, now, tx, sqlStrict>>
  /\ LET args == [NoArgs EXCEPT !.op = "create", !.user = u, !.flight_id = f,
                                !.passengers = ps, !.class = cls]
     IN
     IF f = 0 \/ ps = <<>>
       THEN /\ resp' = Reply("ValidationFailed")
            /\ rq' = [rq EXCEPT ![r] = NoArgs]
            /\ inUse' = inUse
       ELSE IF ~(f \in FlightIds /\ flights[f].status \in {"scheduled", "boarding"})
       THEN /\ resp' = Reply("FlightUnavailable")
            /\ rq' = [rq EXCEPT ![r] = NoArgs]
            /\ inUse' = inUse
       ELSE IF AvailableSeats(f) < Len(ps)
       THEN /\ resp' = [Reply("CapacityExceeded") EXCEPT
                           !.remaining = AvailableSeats(f)]
            /\ rq' = [rq EXCEPT ![r] = NoArgs]
            /\ inUse' = inUse
       ELSE /\ resp' = NoResp
            /\ rq' = [rq EXCEPT ![r] =
                        [args EXCEPT !.pc = "create_insert",
                                     !.price = FarePrice(flights[f], cls)]]
            /\ inUse' = inUse + 1

\* res.status(500).json({message: 'Failed to create booking: ' +
\* error.message}) when the INSERT hits the UNIQUE key of booking_reference
DuplicateEntry == [Reply("Internal") EXCEPT !.message = "Duplicate entry"]

\* variant: number_of_passengers counts the descriptors that carry a seat
\* number only
NewBookingSeated(r, ref) ==
  [booking_reference |-> ref,
   user_id |-> rq[r].user,
   flight_id |-> rq[r].flight_id,
   number_of_passengers |->
     Cardinality({j \in 1..Len(rq[r].passengers) :
                    rq[r].passengers[j].seat_number # NullSeat}),
   class |-> EnumStore(rq[r].class, ClassEnum),
   total_amount |-> rq[r].price * Len(rq[r].passengers),
   status |-> "confirmed",
   payment_status |-> "paid"]

\* the row of INSERT INTO bookings (...) VALUES (?, ?, ?, ?, ?, ?, 'confirmed', 'paid')
NewBooking(r, ref) ==
  [booking_reference |-> ref,
   user_id |-> rq[r].user,
   flight_id |-> rq[r].flight_id,
   number_of_passengers |-> Len(rq[r].passengers),
   class |-> EnumStore(rq[r].class, ClassEnum),
   total_amount |-> rq[r].price * Len(rq[r].passengers),
   status |-> "confirmed",
   payment_status |-> "paid"]

\* totalAmount, bookingRef (time and Math.random: any reference), INSERT bookings
CreateInsertBooking(r, ref) ==
  /\ rq[r].pc = "create_insert"
  /\ ~RefPending(r, ref)
  /\ UNCHANGED <<tables, now, sqlStrict>>
  /\ IF RefCommitted(ref)
       THEN \* ER_DUP_ENTRY: catch, rollback, 500
            /\ Rollback(r)
            /\ Respond(r, DuplicateEntry)
       ELSE IF sqlStrict /\ rq[r].class \notin ClassEnum
       THEN \* a rejected ENUM value: catch, rollback, 500
            /\ Rollback(r)
            /\ Respond(r, Reply("Internal"))
       ELSE /\ tx' = [tx EXCEPT ![r].booking = <<NewBooking(r, ref)>>]
            /\ rq' = [rq EXCEPT ![r].pc = "create_passenger", ![r].i = 1]
            /\ resp' = NoResp /\ UNCHANGED inUse

\* one turn of the passenger loop: INSERT passengers (unless passenger_id is
\* given), INSERT booking_passengers
CreatePassenger(r) ==
  /\ rq[r].pc = "create_passenger"
  /\ UNCHANGED <<tables, now, sqlStrict>>
  /\ LET pd == rq[r].passengers[rq[r].i]
         isNew == pd.passenger_id = 0
         pid == IF isNew THEN 0 - (Len(tx[r].passengers) + 1) ELSE pd.passenger_id
         last == rq[r].i = Len(rq[r].passengers)
     IN
     IF ~isNew /\ ~PassengerExists(pd.passenger_id)
       THEN \* foreign key violation: catch, rollback, 500
            /\ Rollback(r)
            /\ Respond(r, Reply("Internal"))
       ELSE /\ tx' = [tx EXCEPT
                        ![r].passengers =
                          IF isNew
                            THEN Append(@, [user_id |-> rq[r].user,
                                            last_name |-> pd.last_name])
                            ELSE @,
                        ![r].links =
                          Append(@, [booking_id |-> 0, passenger_id |-> pid,
                                     seat_number |-> pd.seat_number])]
            /\ rq' = [rq EXCEPT ![r].pc = IF last THEN "create_commit"
                                                  ELSE "create_passenger",
                                ![r].i = @ + 1]
            /\ resp' = NoResp /\ UNCHANGED inUse

\* await connection.commit()
CreateCommit(r) ==
  /\ rq[r].pc = "create_commit"
  /\ Commit(r)
  /\ rq' = [rq EXCEPT ![r].pc = "create_readback", ![r].booking_id = Len(bookings) + 1]
  /\ resp' = NoResp
  /\ UNCHANGED <<aircraft, flights, now, inUse, sqlStrict>>

\* queryOne(...) on a second pooled connection, 201, connection.release()
CreateReadBack(r) ==
  /\ rq[r].pc = "create_readback"
  /\ inUse < ConnectionLimit
  /\ Respond(r, Reply("Created"))
  /\ UNCHANGED <<tables, now, tx, sqlStrict>>

\* a statement of the handler throws (lost connection, server error):
\* catch { rollback; 500 } finally { release }
CreateFault(r) ==
  /\ rq[r].op = "create"
  /\ rq[r].pc \in {"create_insert", "create_passenger", "create_commit",
                   "create_readback"}
  /\ Rollback(r)
  /\ Respond(r, Reply("Internal"))
  /\ UNCHANGED <<tables, now, sqlStrict>>


---------------------------------------------------------------------------
(* POST /api/bookings/:id/cancel *)

\* variant: the SELECT does not compare user_id
OwnedBookingAnyUser(b, u) == b \in 1..Len(bookings)

\* the booking row with the given id that belongs to the user, if any
OwnedBooking(b, u) == b \in 1..Len(bookings) /\ bookings[b].user_id = u

\* variants: only one of the two checks
NotCancellableCancelledOnly(row) == row.status = "cancelled"
NotCancellableCompletedOnly(row) == row.status = "completed"

\* if (booking.status === 'cancelled') ... if (booking.status === 'completed')
NotCancellable(row) == row.status = "cancelled" \/ row.status = "completed"

\* getConnection, beginTransaction, isNaN, SELECT ... WHERE booking_id = ? AND
\* user_id = ?, the two status checks
CancelSelect(r, u, b) ==
  /\ Free(r)
  /\ inUse < ConnectionLimit
  /\ UNCHANGED <<tables, now, tx, sqlStrict>>
  /\ LET args == [NoArgs EXCEPT !.op = "cancel", !.user = u, !.booking_id = b]
         early(kind) == /\ resp' = Reply(kind)
                        /\ rq' = [rq EXCEPT ![r] = NoArgs]
                        /\ inUse' = inUse
     IN
     IF b = NaN THEN early("ValidationFailed")
     ELSE IF ~OwnedBooking(b, u) THEN early("NotFound")
     ELSE IF NotCancellable(bookings[b]) THEN early("InvalidState")
     ELSE /\ resp' = NoResp
          /\ rq' = [rq EXCEPT ![r] = [args EXCEPT !.pc = "cancel_update"]]
          /\ inUse' = inUse + 1

\* variants: the UPDATE sets the status only; the UPDATE also zeroes the total
CancelledRowStatusOnly(row) == [row EXCEPT !.status = "cancelled"]
CancelledRowZeroTotal(row) ==
  [row EXCEPT !.status = "cancelled", !.payment_status = "refunded",
              !.total_amount = 0]

\* UPDATE bookings SET status = 'cancelled', payment_status = 'refunded'
CancelledRow(row) == [row EXCEPT !.status = "cancelled", !.payment_status = "refunded"]

\* the UPDATE and connection.commit(): the row lock is held in between, so
\* the new row becomes visible in one step
CancelUpdate(r) ==
  /\ rq[r].pc = "cancel_update"
  /\ bookings' = [bookings EXCEPT ![rq[r].booking_id] = CancelledRow(@)]
  /\ Respond(r, Reply("Cancelled"))
  /\ UNCHANGED <<aircraft, flights, passengers, links, check_ins, now, tx, sqlStrict>>

CancelFault(r) ==
  /\ rq[r].pc = "cancel_update"
  /\ Rollback(r)
  /\ Respond(r, Reply("Internal"))
  /\ UNCHANGED <<tables, now, sqlStrict>>

---------------------------------------------------------------------------
(* POST /api/bookings/:id/update-status *)

\* UPDATE bookings SET status = ? : the ENUM column rejects or blanks a value
\* outside its domain
StatusWritable(s) == s \in BookingStatusEnum \/ ~sqlStrict

WithStatus(row, s) == [row EXCEPT !.status = EnumStore(s, BookingStatusEnum)]

\* the handler has no transaction: queryOne (ownership) and query (UPDATE)
\* run on pool connections; ownership never changes between the two
UpdateStatus(r, u, b, s) ==
  /\ Free(r)
  /\ inUse < ConnectionLimit
  /\ UNCHANGED <<aircraft, flights, passengers, links, check_ins, now, tx,
                 inUse, sqlStrict>>
  /\ LET args == [NoArgs EXCEPT !.op = "update_status", !.user = u, !.booking_id = b]
         kind == IF b = NaN THEN "ValidationFailed"
                 ELSE IF s \notin {"completed", "missed", "cancelled"}
                   THEN "ValidationFailed"
                 ELSE IF ~OwnedBooking(b, u) THEN "NotFound"
                 ELSE IF ~StatusWritable(s) THEN "Internal"
                 ELSE "Updated"
     IN
     /\ resp' = Reply(kind)
     /\ rq' = [rq EXCEPT ![r] = NoArgs]
     /\ bookings' = IF kind = "Updated"
                      THEN [bookings EXCEPT ![b] = WithStatus(@, s)]
                      ELSE bookings

---------------------------------------------------------------------------
(* /api/admin: PUT /bookings/:id/status, PUT /flights/:id, PUT /aircraft/:id *)

\* body.status is validated isIn(pending, confirmed, cancelled, completed);
\* body.payment_status is optional ("" when absent)
AdminUpdateBookingStatus(b, s, pay) ==
  /\ inUse < ConnectionLimit
  /\ s \in {"pending", "confirmed", "cancelled", "completed"}
  /\ pay \in {"", "pending", "paid", "refunded"}
  /\ b \in 1..Len(bookings)
  /\ bookings' = [bookings EXCEPT ![b] =
                    [@ EXCEPT !.status = s,
                              !.payment_status = IF pay # "" THEN pay ELSE @]]
  /\ UNCHANGED <<aircraft, flights, passengers, links, check_ins, now, rq, tx,
                 inUse, sqlStrict>>
  /\ resp' = NoResp

\* the dynamic UPDATE flights SET ...: the fields the body carries replace
\* the row's, the others stay
UpdatedRow(row, body) ==
  [k \in DOMAIN row |-> IF k \in DOMAIN body THEN body[k] ELSE row[k]]

\* what the store accepts of the body: the aircraft must exist (foreign key),
\* the status must be in the ENUM (strict mode)
FlightBodyAccepted(body) ==
  /\ "aircraft_id" \in DOMAIN body => body["aircraft_id"] \in AircraftIds
  /\ "status" \in DOMAIN body =>
       (body["status"] \in FlightStatusEnum \/ ~sqlStrict)

AdminUpdateFlight(f, body) ==
  /\ inUse < ConnectionLimit
  /\ f \in FlightIds
  /\ DOMAIN body # {}
  /\ FlightBodyAccepted(body)
  /\ flights' = [flights EXCEPT ![f] =
                   UpdatedRow(@, IF "status" \in DOMAIN body
                                   THEN [body EXCEPT !["status"] =
                                           EnumStore(@, FlightStatusEnum)]
                                   ELSE body)]
  /\ UNCHANGED <<aircraft, bookings, passengers, links, check_ins, now, rq, tx,
                 inUse, sqlStrict>>
  /\ resp' = NoResp

\* body.capacity is validated isInt({min: 1, max: 1000})
AdminUpdateAircraft(a, cap) ==
  /\ inUse < ConnectionLimit
  /\ a \in AircraftIds
  /\ cap >= 1
  /\ aircraft' = [aircraft EXCEPT ![a].capacity = cap]
  /\ UNCHANGED <<flights, bookings, passengers, links, check_ins, now, rq, tx,
                 inUse, sqlStrict>>
  /\ resp' = NoResp


---------------------------------------------------------------------------
(* POST /api/checkin/search *)

\* SELECT ... FROM bookings b ... WHERE b.booking_reference = ?
BookingByReference(ref) ==
  {b \in 1..Len(bookings) : bookings[b].booking_reference = ref}

\* ... WHERE bp.booking_id = ? AND LOWER(p.last_name) = LOWER(?)
PassengerMatch(b, name) ==
  \E k \in LinkIdsOf(b) :
    Lower(passengers[links[k].passenger_id].last_name) = Lower(name)

\* SELECT check_in_id, status FROM check_ins WHERE booking_id = ?
CheckInsOf(b) == {c \in 1..Len(check_ins) : check_ins[c].booking_id = b}

\* the express-validator chain of /search: reference of 5..20 characters in
\* [A-Z0-9], last name of 2..100 letters; the model's malformed inputs are ""
SearchInputValid(ref, name) == ref # "" /\ name # ""

\* validation, booking by reference, ownership, status, last-name match
SearchLookup(r, u, ref, name) ==
  /\ Free(r)
  /\ inUse < ConnectionLimit
  /\ UNCHANGED <<tables, now, tx, inUse, sqlStrict>>
  /\ LET found == BookingByReference(ref)
         b == CHOOSE x \in found : TRUE
         args == [NoArgs EXCEPT !.op = "search", !.user = u,
                                !.booking_reference = ref, !.last_name = name,
                                !.booking_id = IF found = {} THEN 0 ELSE b]
         early(kind) == /\ resp' = Reply(kind)
                        /\ rq' = [rq EXCEPT ![r] = NoArgs]
     IN
     IF ~SearchInputValid(ref, name) THEN early("ValidationFailed")
     ELSE IF found = {} THEN early("NotFound")
     ELSE IF u # bookings[b].user_id THEN early("Forbidden")
     ELSE IF bookings[b].status # "confirmed" THEN early("InvalidState")
     ELSE IF ~PassengerMatch(b, name) THEN early("NameMismatch")
     ELSE /\ resp' = NoResp
          /\ rq' = [rq EXCEPT ![r] = [args EXCEPT !.pc = "search_checkin"]]

\* the place of a last name in the collation order of the model's names
LastNameRank(n) ==
  CASE Lower(n) = "kim" -> 1
    [] Lower(n) = "lee" -> 2
    [] OTHER -> 3

\* the links in S by ORDER BY p.last_name (then by link id)
RECURSIVE ByLastName(_)
ByLastName(S) ==
  IF S = {} THEN <<>>
  ELSE LET rank(k) == LastNameRank(passengers[links[k].passenger_id].last_name)
           m == CHOOSE x \in S : \A y \in S :
                  rank(x) < rank(y) \/ (rank(x) = rank(y) /\ x <= y)
       IN <<links[m].passenger_id>> \o ByLastName(S \ {m})

\* SELECT p.passenger_id, ... FROM booking_passengers bp INNER JOIN passengers p
\* ... WHERE bp.booking_id = ? ORDER BY p.last_name, p.first_name
PassengerList(b) == ByLastName(LinkIdsOf(b))

\* existing check-in, the check-in window, the passenger list
SearchCheckIn(r) ==
  /\ rq[r].pc = "search_checkin"
  /\ inUse < ConnectionLimit
  /\ UNCHANGED <<tables, now, tx, inUse, sqlStrict>>
  /\ LET b == rq[r].booking_id
         dep == flights[bookings[b].flight_id].departure_datetime
         early(kind) == /\ resp' = Reply(kind)
                        /\ rq' = [rq EXCEPT ![r] = NoArgs]
     IN
     IF \E c \in CheckInsOf(b) : check_ins[c].status = "completed"
       THEN /\ resp' = [Reply("AlreadyCheckedIn") EXCEPT !.alreadyCheckedIn = TRUE]
            /\ rq' = [rq EXCEPT ![r] = NoArgs]
     ELSE IF Departed(dep, now)
       THEN /\ rq' = [rq EXCEPT ![r].pc = "search_missed"]
            /\ resp' = NoResp
     ELSE IF TooEarly(dep, now) THEN early("TooEarly")
     ELSE /\ resp' = [Reply("Found") EXCEPT !.passengers = PassengerList(b)]
          /\ rq' = [rq EXCEPT ![r] = NoArgs]

\* the departed branch: re-read check_ins, UPDATE bookings SET status = 'missed'
SearchMissed(r) ==
  /\ rq[r].pc = "search_missed"
  /\ inUse < ConnectionLimit
  /\ UNCHANGED <<aircraft, flights, passengers, links, check_ins, now, tx,
                 inUse, sqlStrict>>
  /\ LET b == rq[r].booking_id
     IN
     IF CheckInsOf(b) # {}
       THEN /\ UNCHANGED bookings
            /\ resp' = Reply("Departed")
       ELSE IF StatusWritable("missed")
       THEN /\ bookings' = [bookings EXCEPT ![b] = WithStatus(@, "missed")]
            /\ resp' = Reply("Departed")
       ELSE \* the UPDATE throws: catch, 500
            /\ UNCHANGED bookings
            /\ resp' = Reply("Internal")
  /\ rq' = [rq EXCEPT ![r] = NoArgs]

SearchFault(r) ==
  /\ rq[r].pc \in {"search_checkin", "search_missed"}
  /\ resp' = Reply("Internal")
  /\ rq' = [rq EXCEPT ![r] = NoArgs]
  /\ UNCHANGED <<tables, now, tx, inUse, sqlStrict>>

---------------------------------------------------------------------------
(* POST /api/checkin/confirm *)

\* the validator chain of /confirm: a non-empty array of non-blank strings
SeatNumbersValid(seats) ==
  /\ seats # <<>>
  /\ \A k \in 1..Len(seats) : Trim(seats[k]) # <<>>

\* new Date(departureTime.getTime() - 30 * 60 * 1000)
boardingTime(dep) == dep - BoardingLeadMinutes

\* variant: only too few seat numbers are refused
CountMismatchFewerOnly(b, seats) == Len(seats) < Cardinality(LinkIdsOf(b))

\* passengerLinks.length !== seat_numbers.length
CountMismatch(b, seats) == Cardinality(LinkIdsOf(b)) # Len(seats)

\* getConnection, validation, beginTransaction, the SELECTs of bookings,
\* check_ins, flights and booking_passengers (one snapshot), the window
ConfirmSelect(r, u, b, seats) ==
  /\ Free(r)
  /\ inUse < ConnectionLimit
  /\ UNCHANGED <<tables, now, tx, sqlStrict>>
  /\ LET args == [NoArgs EXCEPT !.op = "confirm", !.user = u, !.booking_id = b,
                                !.seat_numbers = seats]
         early(kind) == /\ resp' = Reply(kind)
                        /\ rq' = [rq EXCEPT ![r] = NoArgs]
                        /\ inUse' = inUse
         dep == flights[bookings[b].flight_id].departure_datetime
         next(pc) == /\ resp' = NoResp
                     /\ rq' = [rq EXCEPT ![r] = [args EXCEPT !.pc = pc,
                                                              !.departure = dep]]
                     /\ inUse' = inUse + 1
     IN
     IF b < 1 \/ ~SeatNumbersValid(seats) THEN early("ValidationFailed")
     ELSE IF ~(OwnedBooking(b, u) /\ bookings[b].status = "confirmed")
       THEN early("NotFound")
     ELSE IF CheckInsOf(b) # {} THEN early("AlreadyCheckedIn")
     ELSE IF ConfirmDeparted(dep, now) THEN next("confirm_missed")
     ELSE IF ConfirmTooEarly(dep, now) THEN early("TooEarly")
     ELSE IF CountMismatch(b, seats) THEN early("CountMismatch")
     ELSE next("confirm_insert")

\* the departed branch: UPDATE bookings SET status = 'missed', commit, 400
ConfirmMissed(r) ==
  /\ rq[r].pc = "confirm_missed"
  /\ UNCHANGED <<aircraft, flights, passengers, links, check_ins, now, sqlStrict>>
  /\ IF StatusWritable("missed")
       THEN /\ bookings' = [bookings EXCEPT ![rq[r].booking_id] =
                              WithStatus(@, "missed")]
            /\ UNCHANGED tx
            /\ Respond(r, Reply("Departed"))
       ELSE \* the UPDATE throws: catch, rollback, 500
            /\ UNCHANGED bookings
            /\ Rollback(r)
            /\ Respond(r, ConfirmFailed)

\* INSERT INTO check_ins (...) VALUES (?, NOW(), ?, ?, 'completed')
NewCheckIn(r) ==
  [booking_id |-> rq[r].booking_id,
   boarding_time |-> boardingTime(rq[r].departure),
   status |-> "completed"]

\* variant: check_ins.booking_id without its UNIQUE key
CheckInDuplicateNever(b) == FALSE

\* whether the INSERT into check_ins hits a committed row with the same
\* booking_id (UNIQUE): ER_DUP_ENTRY
CheckInDuplicate(b) == CheckInCommitted(b)

ConfirmInsert(r) ==
  /\ rq[r].pc = "confirm_insert"
  /\ ~CheckInPending(r, rq[r].booking_id)
  /\ UNCHANGED <<tables, now, sqlStrict>>
  /\ IF CheckInDuplicate(rq[r].booking_id)
       THEN /\ Rollback(r)
            /\ Respond(r, ConfirmFailed)
       ELSE /\ tx' = [tx EXCEPT ![r].check_in = <<NewCheckIn(r)>>]
            /\ rq' = [rq EXCEPT ![r].pc = "confirm_seat", ![r].i = 1]
            /\ resp' = NoResp /\ UNCHANGED inUse

\* variant: the links in descending order of their id
RECURSIVE NthOfDescending(_, _)
NthOfDescending(S, n) ==
  LET m == CHOOSE x \in S : \A y \in S : x >= y
  IN IF n = 1 THEN m ELSE NthOfDescending(S \ {m}, n - 1)

\* the i-th booking_passenger_id of the booking, in ascending order
RECURSIVE NthOf(_, _)
NthOf(S, n) ==
  LET m == CHOOSE x \in S : \A y \in S : x <= y
  IN IF n = 1 THEN m ELSE NthOf(S \ {m}, n - 1)

\* one turn of the seat loop: UPDATE booking_passengers SET seat_number = ?
ConfirmSeat(r) ==
  /\ rq[r].pc = "confirm_seat"
  /\ resp' = NoResp
  /\ UNCHANGED <<tables, now, inUse, sqlStrict>>
  /\ LET i == rq[r].i
         link == NthOf(LinkIdsOf(rq[r].booking_id), i)
         seat == ToUpperCase(Trim(rq[r].seat_numbers[i]))
     IN
     /\ tx' = [tx EXCEPT ![r].seats = Append(@, <<link, seat>>)]
     /\ rq' = [rq EXCEPT ![r].pc = IF i = Len(rq[r].seat_numbers)
                                     THEN "confirm_commit" ELSE "confirm_seat",
                         ![r].i = i + 1]

\* connection.commit(), 200
ConfirmCommit(r) ==
  /\ rq[r].pc = "confirm_commit"
  /\ Commit(r)
  /\ Respond(r, Reply("CheckedIn"))
  /\ UNCHANGED <<aircraft, flights, now, sqlStrict>>

\* variant: the catch block commits what the transaction wrote so far
ConfirmFaultCommitting(r) ==
  /\ rq[r].pc \in {"confirm_missed", "confirm_insert", "confirm_seat",
                   "confirm_commit"}
  /\ Commit(r)
  /\ Respond(r, ConfirmFailed)
  /\ UNCHANGED <<aircraft, flights, now, sqlStrict>>

ConfirmFault(r) ==
  /\ rq[r].pc \in {"confirm_missed", "confirm_insert", "confirm_seat",
                   "confirm_commit"}
  /\ Rollback(r)
  /\ Respond(r, ConfirmFailed)
  /\ UNCHANGED <<tables, now, sqlStrict>>

---------------------------------------------------------------------------
(* Time *)

\* the wall clock moves on to a later instant
Tick(t) ==
  /\ t > now
  /\ now' = t
  /\ resp' = NoResp
  /\ UNCHANGED <<tables, rq, tx, inUse, sqlStrict>>


---------------------------------------------------------------------------
(* Inputs of the requests *)

\* passenger descriptors of a create request
NewLee == [passenger_id |-> 0, last_name |-> "Lee", seat_number |-> NullSeat]
NewKim == [passenger_id |-> 0, last_name |-> "Kim", seat_number |-> <<"1", "a">>]
Saved == [passenger_id |-> 1, last_name |-> "", seat_number |-> NullSeat]

\* 'BK' + Date.now().toString(36) + Math.random()...: the generator may
\* return any reference
ReferenceSeq == <<"BKA01", "BKB02", "BKC03", "BKD04">>
References == Range(ReferenceSeq)

\* a reference no booking row and no open transaction holds
FreshReference(ref) ==
  /\ ~RefCommitted(ref)
  /\ \A r \in DOMAIN rq :
       IF tx[r].booking = <<>> THEN TRUE
       ELSE tx[r].booking[1].booking_reference # ref

\* the first reference of ReferenceSeq that is fresh
FirstFresh(ref) ==
  \E k \in 1..Len(ReferenceSeq) :
    /\ ReferenceSeq[k] = ref
    /\ FreshReference(ref)
    /\ \A j \in 1..(k - 1) : ~FreshReference(ReferenceSeq[j])

\* a new request takes the lowest free slot (the slots are interchangeable)
Slot(r) == Free(r) /\ \A q \in DOMAIN rq : q < r => ~Free(q)

\* the bookings table and the open creates stay within the model's bound
RoomForBooking == Len(bookings) + OpenCreates < MaxBookings

---------------------------------------------------------------------------
(* Spec: the booking ledger.  Concurrent create and cancel requests of one
   customer and of a stranger, failing statements, and the administrator's
   capacity updates. *)

CreateStep(r) ==
  \/ \E ref \in References :
       FirstFresh(ref) /\ CreateInsertBooking(r, ref)
  \/ CreatePassenger(r)
  \/ CreateCommit(r)
  \/ CreateReadBack(r)
  \/ CreateFault(r)

CancelStep(r) == CancelUpdate(r) \/ CancelFault(r)

\* the passenger lists of the create requests
LedgerPassengerLists == {<<NewLee>>, <<NewLee, NewKim>>}

Next ==
  \/ \E r \in Reqs, ps \in LedgerPassengerLists :
       Slot(r) /\ RoomForBooking /\ CreateSelect(r, 1, 1, ps, "economy")
  \/ \E r \in Reqs : CreateStep(r)
  \/ \E r \in Reqs, u \in Users, b \in 1..MaxBookings :
       Slot(r) /\ CancelSelect(r, u, b)
  \/ \E r \in Reqs : CancelStep(r)
  \/ \E cap \in 1..MaxCapacity : AdminUpdateAircraft(1, cap)

Spec == Init /\ [][Next]_vars

---------------------------------------------------------------------------
(* Properties of the booking ledger *)

\* C1: for every flight, the passengers attached to bookings that are not
\* cancelled are at most the capacity of the flight's aircraft, in every
\* reachable state.
SeatsWithinCapacity ==
  \A f \in FlightIds : BookedSeats(f) <= aircraft[flights[f].aircraft_id].capacity

\* descriptors of request r that carry no passenger_id
NewDescriptors(r) ==
  Cardinality({j \in 1..Len(rq[r].passengers) :
                 rq[r].passengers[j].passenger_id = 0})

\* the step commits the transaction of create request r
CommitsBooking(r) == rq[r].pc = "create_commit" /\ rq'[r].pc = "create_readback"

\* the step ends create request r before its commit, with a failure response
CreateFails(r) ==
  /\ rq[r].pc \in {"create_insert", "create_passenger", "create_commit"}
  /\ rq'[r] = NoArgs

\* the rows s2 holds after the first n are all new: s2 extends s1
Extends(s2, s1) ==
  /\ Len(s2) >= Len(s1)
  /\ \A k \in 1..Len(s1) : s2[k] = s1[k]

\* C2: create-booking is all-or-nothing.  The step that commits a create
\* adds exactly one booking row (of that request), one link row per passenger
\* descriptor, all of the new booking, and one passenger row per descriptor
\* without passenger_id; a create that fails (flight lookup, capacity check,
\* an insert, the commit) changes no table and leaves no uncommitted row
\* behind; and no other step adds a booking, passenger or link row.
CreateAllOrNothing ==
  [][/\ \A r \in Reqs :
          CommitsBooking(r) =>
            LET id == Len(bookings) + 1
            IN /\ Len(bookings') = id
               /\ Extends(bookings', bookings)
               /\ bookings'[id].user_id = rq[r].user
               /\ bookings'[id].number_of_passengers = Len(rq[r].passengers)
               /\ Len(links') = Len(links) + Len(rq[r].passengers)
               /\ Extends(links', links)
               /\ \A k \in (Len(links) + 1)..Len(links') :
                    links'[k].booking_id = id
               /\ Len(passengers') = Len(passengers) + NewDescriptors(r)
               /\ Extends(passengers', passengers)
     /\ \A r \in Reqs :
          CreateFails(r) =>
            /\ resp'.kind = "Internal"
            /\ tables' = tables
            /\ tx'[r] = EmptyTx
     /\ resp'.kind \in {"ValidationFailed", "FlightUnavailable", "CapacityExceeded"}
          => tables' = tables /\ tx' = tx
     /\ (\A r \in Reqs : ~CommitsBooking(r)) =>
          /\ Len(bookings') = Len(bookings)
          /\ links' = links
          /\ passengers' = passengers
    ]_vars

\* a create of two new passengers has just committed its three kinds of rows
CreateCommitted ==
  \E r \in Reqs :
    /\ rq[r].pc = "create_readback"
    /\ rq[r].booking_id = Len(bookings)
    /\ Cardinality(LinkIdsOf(rq[r].booking_id)) = 2
    /\ Len(passengers) >= 2

\* the passengers of the non-cancelled bookings among the first n bookings
\* that are on flight f, summed booking by booking
RECURSIVE PassengersBooked(_, _)
PassengersBooked(f, n) ==
  IF n = 0 THEN 0
  ELSE PassengersBooked(f, n - 1)
         + (IF bookings[n].flight_id = f /\ bookings[n].status # "cancelled"
              THEN Cardinality(LinkIdsOf(n)) ELSE 0)

\* aircraft capacity minus passengers on non-cancelled bookings
SeatsLeft(f) ==
  aircraft[flights[f].aircraft_id].capacity - PassengersBooked(f, Len(bookings))

\* C3: a create for n passengers on a bookable flight with fewer than n
\* seats left answers CapacityExceeded with the exact number of seats left in
\* its message, and writes nothing.
CapacityErrorExact ==
  [][\A r \in Reqs, ps \in LedgerPassengerLists :
       (/\ flights[1].status \in {"scheduled", "boarding"}
        /\ SeatsLeft(1) < Len(ps)
        /\ CreateSelect(r, 1, 1, ps, "economy"))
         => /\ resp'.kind = "CapacityExceeded"
            /\ resp'.remaining = SeatsLeft(1)
            /\ tables' = tables
            /\ tx' = tx
            /\ rq'[r] = NoArgs
    ]_vars

\* capacity 1, one passenger booked, and a create has just been refused with
\* "Only 0 seat(s) remaining."
NoSeatRemaining ==
  /\ aircraft[flights[1].aircraft_id].capacity = 1
  /\ PassengersBooked(1, Len(bookings)) = 1
  /\ resp.kind = "CapacityExceeded"
  /\ resp.remaining = 0

\* C7: cancelling a booking twice in succession.  The cancel that performs
\* its UPDATE answers Cancelled and leaves the booking cancelled and
\* refunded; a further cancel by the owner, issued when the booking is
\* cancelled and refunded, answers InvalidState and leaves the booking
\* cancelled and refunded.
CancelTwice ==
  [][\A r \in Reqs, u \in Users, b \in 1..MaxBookings :
       /\ (rq[r].booking_id = b /\ CancelUpdate(r)) =>
            /\ resp'.kind = "Cancelled"
            /\ bookings'[b].status = "cancelled"
            /\ bookings'[b].payment_status = "refunded"
       /\ (/\ OwnedBooking(b, u)
           /\ bookings[b].status = "cancelled"
           /\ bookings[b].payment_status = "refunded"
           /\ CancelSelect(r, u, b)) =>
            /\ resp'.kind = "InvalidState"
            /\ rq'[r] = NoArgs
            /\ bookings'[b].status = "cancelled"
            /\ bookings'[b].payment_status = "refunded"
            /\ tables' = tables
    ]_vars

\* the second cancel has just been refused
SecondCancelRefused ==
  /\ resp.kind = "InvalidState"
  /\ \E b \in 1..Len(bookings) :
       bookings[b].status = "cancelled" /\ bookings[b].payment_status = "refunded"

---------------------------------------------------------------------------
(* SpecOps: every operation that writes a booking, a link or a flight.  One
   customer request at a time; the administrator's updates and the clock
   interleave with its steps. *)

\* the classes a create request names; "premium" is outside the ENUM
OpsClasses == {"economy", "business", "first", "premium"}

\* bodies of PUT /flights/:id: new fares, the old base fare, another aircraft
OpsFlightBodies ==
  {[base_price |-> 120, business_price |-> 300, first_class_price |-> 500],
   [base_price |-> 100],
   [aircraft_id |-> 2]}

\* seat numbers of a confirm request
SeatA == <<" ", "1", "a">>
SeatB == <<"1", "b", " ">>
SeatC == <<"2", "a">>

\* instants the clock moves to: 24 hours before departure, departure, after
Instants == {60, 1500, 1501}

\* SpecOps follows one booking through its life
NoBookingYet == Len(bookings) + OpenCreates = 0

\* the one request slot of SpecOps
Solo(r) == r = 1 /\ Free(r)

OpsStep(r) ==
  \/ CreateStep(r)
  \/ CancelStep(r)
  \/ SearchCheckIn(r)
  \/ SearchMissed(r)
  \/ ConfirmMissed(r)
  \/ ConfirmInsert(r)
  \/ ConfirmSeat(r)
  \/ ConfirmCommit(r)
  \/ ConfirmFault(r)

OpsNext ==
  \/ \E r \in Reqs, ps \in LedgerPassengerLists, cls \in OpsClasses :
       Solo(r) /\ NoBookingYet /\ CreateSelect(r, 1, 1, ps, cls)
  \/ \E r \in Reqs : Solo(r) /\ CancelSelect(r, 1, 1)
  \/ \E r \in Reqs, s \in {"completed", "missed", "cancelled"} :
       Solo(r) /\ UpdateStatus(r, 1, 1, s)
  \/ \E r \in Reqs, ref \in {"BKA01"} : Solo(r) /\ SearchLookup(r, 1, ref, "LEE")
  \/ \E r \in Reqs, seats \in {<<SeatA>>, <<SeatA, SeatB>>} :
       Solo(r) /\ ConfirmSelect(r, 1, 1, seats)
  \/ \E r \in Reqs : OpsStep(r)
  \/ \E s \in {"pending", "completed"} : AdminUpdateBookingStatus(1, s, "")
  \/ \E body \in OpsFlightBodies : AdminUpdateFlight(1, body)
  \/ \E t \in Instants : Tick(t)

SpecOps == Init /\ [][OpsNext]_vars

---------------------------------------------------------------------------
(* Properties of the life of a booking *)

\* the fare column of the flights table that belongs to a class
ClassFareColumn ==
  [economy |-> "base_price", business |-> "business_price",
   first |-> "first_class_price"]

\* C4: for a booking created with class economy, business or first, the
\* stored total_amount is the flight's fare for that class, as the request
\* reads it from the flights table, times the number of passenger
\* descriptors of the request: the request keeps the fare it read, its class
\* and its descriptors until its commit, and the committed row carries
\* their product.
TotalIsFareTimesPassengers ==
  [][\A r \in Reqs :
       /\ \A ps \in LedgerPassengerLists, cls \in ClassEnum :
            (CreateSelect(r, 1, 1, ps, cls) /\ rq'[r].pc = "create_insert") =>
              /\ rq'[r].price = flights[1][ClassFareColumn[cls]]
              /\ rq'[r].class = cls
              /\ rq'[r].passengers = ps
       /\ (rq[r].op = "create" /\ rq'[r].op = "create") =>
            /\ rq'[r].price = rq[r].price
            /\ rq'[r].class = rq[r].class
            /\ rq'[r].passengers = rq[r].passengers
       /\ (CommitsBooking(r) /\ rq[r].class \in ClassEnum) =>
            /\ bookings'[Len(bookings')].class = rq[r].class
            /\ bookings'[Len(bookings')].total_amount
                 = rq[r].price * Len(rq[r].passengers)
    ]_vars

\* a first-class booking for two at 400 a seat is stored with total 800
FirstClassForTwo ==
  \E b \in 1..Len(bookings) :
    /\ bookings[b].class = "first"
    /\ bookings[b].number_of_passengers = 2
    /\ bookings[b].total_amount = 800

\* the fields of a booking row that are fixed at creation
CreationFields(row) ==
  <<row.flight_id, row.user_id, row.number_of_passengers, row.class,
    row.booking_reference, row.total_amount>>

\* C5: once a booking row exists, no step changes its flight, owner,
\* number_of_passengers, class, booking reference or total_amount (nor
\* removes the row); this includes the administrator's fare updates.
CreationFieldsFrozen ==
  [][\A b \in 1..Len(bookings) :
       /\ Len(bookings') >= b
       /\ CreationFields(bookings'[b]) = CreationFields(bookings[b])
    ]_vars

\* an economy booking made at 100 a seat keeps its total after the base fare
\* has become 120 and its status has changed
TotalKeptAfterFareChange ==
  \E b \in 1..Len(bookings) :
    /\ bookings[b].class = "economy"
    /\ bookings[b].total_amount = 100 * bookings[b].number_of_passengers
    /\ flights[bookings[b].flight_id].base_price = 120
    /\ bookings[b].status = "cancelled"

\* C6: a cancel by the owner that reads the booking as cancelled or completed
\* answers InvalidState and changes nothing; one that reads any other status
\* goes on to its UPDATE, and the step of that UPDATE sets status to
\* cancelled and payment_status to refunded together and touches nothing
\* else (or, if the statement fails, changes nothing at all).
CancelAtomic ==
  [][\A r \in Reqs :
       /\ (/\ OwnedBooking(1, 1)
           /\ bookings[1].status \in {"cancelled", "completed"}
           /\ CancelSelect(r, 1, 1)) =>
            /\ resp'.kind = "InvalidState"
            /\ rq'[r] = NoArgs
            /\ tables' = tables
            /\ tx' = tx
       /\ (/\ OwnedBooking(1, 1)
           /\ bookings[1].status \notin {"cancelled", "completed"}
           /\ CancelSelect(r, 1, 1)) =>
            /\ rq'[r].pc = "cancel_update"
            /\ rq'[r].booking_id = 1
            /\ tables' = tables
       /\ (rq[r].pc = "cancel_update" /\ rq'[r] # rq[r]) =>
            LET b == rq[r].booking_id
            IN \/ /\ resp'.kind = "Cancelled"
                  /\ bookings' = [bookings EXCEPT
                                    ![b].status = "cancelled",
                                    ![b].payment_status = "refunded"]
                  /\ <<aircraft, flights, passengers, links, check_ins>>'
                       = <<aircraft, flights, passengers, links, check_ins>>
               \/ /\ resp'.kind = "Internal"
                  /\ tables' = tables
    ]_vars

\* a cancel has passed its status check on a pending, paid booking
PendingBeingCancelled ==
  \E r \in Reqs :
    /\ rq[r].pc = "cancel_update"
    /\ bookings[rq[r].booking_id].status = "pending"
    /\ bookings[rq[r].booking_id].payment_status = "paid"

---------------------------------------------------------------------------
(* SpecCheckIn: online check-in of one booking for two passengers.  The
   owner and a stranger search, confirm, cancel and update the status, two
   requests at a time, while the clock moves through the check-in window. *)

\* references and last names of the search requests: the booking's reference
\* and one no booking has, a passenger's name in capitals and a stranger's
CheckInReferences == {"BKA01", "BKB02"}
CheckInLastNames == {"LEE", "Poe"}

\* callers and seat lists of the confirm requests
CheckInSeatLists == {<<SeatA, SeatB>>, <<SeatA>>, <<SeatA, SeatB, SeatC>>}

CheckInStep(r) ==
  \/ CreateStep(r)
  \/ CancelStep(r)
  \/ SearchCheckIn(r)
  \/ SearchMissed(r)
  \/ SearchFault(r)
  \/ ConfirmMissed(r)
  \/ ConfirmInsert(r)
  \/ ConfirmSeat(r)
  \/ ConfirmCommit(r)
  \/ ConfirmFault(r)

CheckInNext ==
  \/ \E r \in Reqs :
       Slot(r) /\ NoBookingYet /\ CreateSelect(r, 1, 1, <<NewLee, NewKim>>, "economy")
  \/ \E r \in Reqs, u \in Users, ref \in CheckInReferences,
          name \in CheckInLastNames :
       Slot(r) /\ SearchLookup(r, u, ref, name)
  \/ \E r \in Reqs, u \in Users, seats \in CheckInSeatLists :
       Slot(r) /\ ConfirmSelect(r, u, 1, seats)
  \/ \E r \in Reqs, u \in Users : Slot(r) /\ CancelSelect(r, u, 1)
  \/ \E r \in Reqs, u \in Users, s \in {"completed", "cancelled"} :
       Slot(r) /\ UpdateStatus(r, u, 1, s)
  \/ \E r \in Reqs : CheckInStep(r)
  \/ \E t \in Instants : Tick(t)

SpecCheckIn == Init /\ [][CheckInNext]_vars

---------------------------------------------------------------------------
(* Properties of check-in *)

\* booking b exists and belongs to somebody other than u
OwnedByOther(b, u) == b \in 1..Len(bookings) /\ bookings[b].user_id # u

\* C8: a caller who is not the owner of a booking gets NotFound from cancel,
\* update-status and check-in confirm and Forbidden from check-in search,
\* and the request changes no row of any table and writes nothing into a
\* transaction.
StrangerChangesNothing ==
  [][\A r \in Reqs, u \in Users :
       OwnedByOther(1, u) =>
         /\ CancelSelect(r, u, 1) =>
              resp'.kind = "NotFound" /\ tables' = tables /\ tx' = tx
         /\ \A s \in {"completed", "missed", "cancelled"} :
              UpdateStatus(r, u, 1, s) =>
                resp'.kind = "NotFound" /\ tables' = tables /\ tx' = tx
         /\ \A seats \in CheckInSeatLists :
              ConfirmSelect(r, u, 1, seats) =>
                resp'.kind = "NotFound" /\ tables' = tables /\ tx' = tx
         /\ SearchLookup(r, u, bookings[1].booking_reference, "LEE") =>
              resp'.kind = "Forbidden" /\ tables' = tables /\ tx' = tx
    ]_vars

\* a stranger has just been refused while the booking is confirmed, the
\* window is open and nobody has checked in
StrangerRefused ==
  /\ resp.kind \in {"NotFound", "Forbidden"}
  /\ Len(bookings) = 1
  /\ bookings[1].status = "confirmed"
  /\ check_ins = <<>>
  /\ now = 1500
  /\ \A r \in Reqs : Free(r)

\* C9: a search or confirm that reaches its departed branch on a confirmed
\* booking without check-in record stores status missed, adds no CheckIn row
\* and answers Departed; afterwards the booking is not confirmed, and every
\* search or confirm of the owner answers InvalidState and leaves the
\* booking as it is.
MissedExactlyOnce ==
  [][\A r \in Reqs :
       LET b == rq[r].booking_id
       IN /\ (/\ rq[r].pc \in {"search_missed", "confirm_missed"}
              /\ bookings[b].status = "confirmed"
              /\ CheckInsOf(b) = {}
              /\ SearchMissed(r) \/ ConfirmMissed(r)) =>
                /\ resp'.kind = "Departed"
                /\ bookings'[b].status = "missed"
                /\ check_ins' = check_ins
          /\ (/\ OwnedBooking(1, 1)
              /\ bookings[1].status \notin BookingStatusEnum
              /\ \/ SearchLookup(r, 1, bookings[1].booking_reference, "LEE")
                 \/ \E seats \in CheckInSeatLists : ConfirmSelect(r, 1, 1, seats)) =>
                /\ resp'.kind = "InvalidState"
                /\ bookings' = bookings
    ]_vars

\* the CheckIn rows of booking b
CheckInCount(b) == Cardinality({c \in 1..Len(check_ins) : check_ins[c].booking_id = b})

\* C10: every booking has at most one CheckIn row in every reachable state
\* (two confirms of the same booking may be in flight together); and a
\* well-formed confirm by the owner of a confirmed booking that already has
\* a committed CheckIn row answers AlreadyCheckedIn and changes nothing.
OneCheckInPerBooking ==
  /\ [](\A b \in 1..Len(bookings) : CheckInCount(b) <= 1)
  /\ [][\A r \in Reqs, seats \in CheckInSeatLists :
          (/\ OwnedBooking(1, 1)
           /\ bookings[1].status = "confirmed"
           /\ CheckInCount(1) >= 1
           /\ ConfirmSelect(r, 1, 1, seats)) =>
             /\ resp'.kind = "AlreadyCheckedIn"
             /\ rq'[r] = NoArgs
             /\ tables' = tables
             /\ tx' = tx
       ]_vars

\* a confirm has just been refused because the booking is checked in
ConfirmRefusedCheckedIn ==
  /\ resp.kind = "AlreadyCheckedIn"
  /\ ~resp.alreadyCheckedIn
  /\ CheckInCount(1) = 1

\* C11: a confirm goes on to its writes only when it reads the booking as
\* confirmed and the flight as departing 0 to 24 hours after the request,
\* and at the step that commits its CheckIn row the booking is confirmed,
\* whatever cancel or status update ran in between.
CheckInOnlyWhileConfirmed ==
  [][\A r \in Reqs :
       /\ \A u \in Users, seats \in CheckInSeatLists :
            (ConfirmSelect(r, u, 1, seats) /\ rq'[r].pc = "confirm_insert") =>
              /\ bookings[1].status = "confirmed"
              /\ flights[bookings[1].flight_id].departure_datetime - now >= 0
              /\ flights[bookings[1].flight_id].departure_datetime - now
                   <= WindowHours * MinutesPerHour
       /\ (rq[r].pc = "confirm_commit" /\ Len(check_ins') > Len(check_ins)) =>
            bookings'[rq[r].booking_id].status = "confirmed"
    ]_vars

\* the check-in window of booking b is open now: 0 <= h <= 24
WindowOpen(b) ==
  LET h == flights[bookings[b].flight_id].departure_datetime - now
  IN h >= 0 /\ h <= WindowHours * MinutesPerHour

\* C12: a confirm by the owner of a confirmed booking without check-in row,
\* in the open window, with fewer or with more seat numbers than the booking
\* has passenger links, answers CountMismatch, creates no CheckIn row and
\* changes no seat number.
SeatCountMismatchRefused ==
  [][\A r \in Reqs, seats \in CheckInSeatLists :
       (/\ OwnedBooking(1, 1)
        /\ bookings[1].status = "confirmed"
        /\ CheckInCount(1) = 0
        /\ WindowOpen(1)
        /\ Len(seats) # Cardinality(LinkIdsOf(1))
        /\ ConfirmSelect(r, 1, 1, seats)) =>
          /\ resp'.kind = "CountMismatch"
          /\ rq'[r] = NoArgs
          /\ tables' = tables
          /\ tx' = tx
    ]_vars

\* a confirm has just been refused for its number of seats, with the
\* booking confirmed, not checked in and the window open
SeatCountRefused ==
  /\ resp.kind = "CountMismatch"
  /\ bookings[1].status = "confirmed"
  /\ check_ins = <<>>
  /\ WindowOpen(1)

---------------------------------------------------------------------------
(* SpecSeats: seat numbers.  One customer books, cancels and checks in
   several bookings of the same flight, one request at a time; seat numbers
   come with the passenger descriptors of a create and with a confirm. *)

\* passenger lists of the create requests: Kim asks for seat 1a
SeatsPassengerLists == {<<NewLee, NewKim>>, <<NewKim>>}

\* seat lists of the confirm requests
SeatsSeatLists == {<<SeatA, SeatB>>, <<SeatA>>}

SeatsStep(r) ==
  \/ CreateStep(r)
  \/ CancelStep(r)
  \/ ConfirmInsert(r)
  \/ ConfirmSeat(r)
  \/ ConfirmCommit(r)
  \/ ConfirmFault(r)

SeatsNext ==
  \/ \E r \in Reqs, ps \in SeatsPassengerLists :
       Solo(r) /\ RoomForBooking /\ CreateSelect(r, 1, 1, ps, "economy")
  \/ \E r \in Reqs, b \in 1..MaxBookings : Solo(r) /\ CancelSelect(r, 1, b)
  \/ \E r \in Reqs, b \in 1..MaxBookings, seats \in SeatsSeatLists :
       Solo(r) /\ ConfirmSelect(r, 1, b, seats)
  \/ \E r \in Reqs : SeatsStep(r)
  \/ \E t \in Instants : Tick(t)

SpecSeats == Init /\ [][SeatsNext]_vars

---------------------------------------------------------------------------
(* Properties of seat numbers *)

\* the supplied seat strings, trimmed and uppercased
SeatAsStored ==
  (SeatA :> <<"1", "A">>) @@ (SeatB :> <<"1", "B">>) @@ (SeatC :> <<"2", "A">>)

\* the position of link k among the links of booking b, by link id
LinkRank(b, k) == Cardinality({j \in 1..k : links[j].booking_id = b})

\* C13: the step that commits a successful confirm adds exactly one CheckIn
\* row, of the booking, with status completed and boarding_time 30 minutes
\* before the flight's departure; it sets the seat number of the i-th link
\* of the booking, by link id, to the i-th supplied seat string trimmed and
\* uppercased; and it changes nothing else of any link.
ConfirmWrites ==
  [][\A r \in Reqs :
       (rq[r].pc = "confirm_commit" /\ resp'.kind = "CheckedIn") =>
         LET b == rq[r].booking_id
         IN /\ Len(check_ins') = Len(check_ins) + 1
            /\ Extends(check_ins', check_ins)
            /\ check_ins'[Len(check_ins')] =
                 [booking_id |-> b,
                  boarding_time |->
                    flights[bookings[b].flight_id].departure_datetime - 30,
                  status |-> "completed"]
            /\ Len(links') = Len(links)
            /\ \A k \in 1..Len(links) :
                 IF links[k].booking_id = b
                   THEN links'[k] =
                          [links[k] EXCEPT !.seat_number =
                             SeatAsStored[rq[r].seat_numbers[LinkRank(b, k)]]]
                   ELSE links'[k] = links[k]
    ]_vars

\* the second booking has just been checked in with seats " 1a" and "1b ":
\* its links carry 1A and 1B, the first booking's link still carries 1a
SecondBookingSeated ==
  /\ resp.kind = "CheckedIn"
  /\ Len(links) = 4
  /\ links[2].booking_id = 1 /\ links[2].seat_number = <<"1", "a">>
  /\ links[3].booking_id = 2 /\ links[3].seat_number = <<"1", "A">>
  /\ links[4].booking_id = 2 /\ links[4].seat_number = <<"1", "B">>

\* C14: within one flight, no two passenger links of bookings that are not
\* cancelled carry the same seat number (links without seat number aside).
SeatsDistinctPerFlight ==
  \A j, k \in 1..Len(links) :
    (/\ j # k
     /\ links[j].seat_number # NullSeat
     /\ bookings[links[j].booking_id].status # "cancelled"
     /\ bookings[links[k].booking_id].status # "cancelled"
     /\ bookings[links[j].booking_id].flight_id
          = bookings[links[k].booking_id].flight_id)
      => links[j].seat_number # links[k].seat_number

---------------------------------------------------------------------------
(* Properties of check-in search *)

\* last names that are equal when case is ignored
NamesAlike == {{"LEE", "Lee", "lee"}, {"KIM", "Kim", "kim"}, {"Poe", "POE", "poe"}}

\* some passenger linked to booking b has the last name, ignoring case
NameOnBooking(b, name) ==
  \E k \in 1..Len(links) :
    /\ links[k].booking_id = b
    /\ \E c \in NamesAlike :
         name \in c /\ passengers[links[k].passenger_id].last_name \in c

\* the search answered kind and changed nothing
SearchRefused(r, kind) ==
  /\ resp'.kind = kind
  /\ rq'[r] = NoArgs
  /\ tables' = tables
  /\ tx' = tx

---------------------------------------------------------------------------
(* Properties of the check-in window *)

\* minutes until the departure of the flight of booking b
MinutesToGo(b) == flights[bookings[b].flight_id].departure_datetime - now

\* the class of h hours until departure: 24 hours are 1440 minutes
WindowClass(m) ==
  IF m < 0 THEN "Departed" ELSE IF m > 1440 THEN "TooEarly" ELSE "Open"

\* C16: search and confirm classify the time until departure alike.  A
\* search that reaches its window test (no completed check-in) and a confirm
\* that reaches its own (owner, confirmed, no check-in row) take the departed
\* branch exactly when h < 0, answer TooEarly exactly when h > 24 and treat
\* the window as open otherwise, h = 0 and h = 24 included; a TooEarly
\* answer changes no row.
WindowAlike ==
  [][\A r \in Reqs :
       /\ (/\ rq[r].pc = "search_checkin"
           /\ ~\E c \in 1..Len(check_ins) :
                  /\ check_ins[c].booking_id = rq[r].booking_id
                  /\ check_ins[c].status = "completed"
           /\ SearchCheckIn(r)) =>
            LET cls == WindowClass(MinutesToGo(rq[r].booking_id))
            IN /\ cls = "Departed" <=> rq'[r].pc = "search_missed"
               /\ cls = "TooEarly" <=> resp'.kind = "TooEarly"
               /\ cls = "Open" <=> resp'.kind = "Found"
               /\ tables' = tables /\ tx' = tx
       /\ \A seats \in CheckInSeatLists :
            (/\ OwnedBooking(1, 1)
             /\ bookings[1].status = "confirmed"
             /\ CheckInCount(1) = 0
             /\ ConfirmSelect(r, 1, 1, seats)) =>
              LET cls == WindowClass(MinutesToGo(1))
              IN /\ cls = "Departed" <=> rq'[r].pc = "confirm_missed"
                 /\ cls = "TooEarly" <=> resp'.kind = "TooEarly"
                 /\ cls = "Open" <=>
                      (resp'.kind = "CountMismatch" \/ rq'[r].pc = "confirm_insert")
                 /\ tables' = tables /\ tx' = tx
    ]_vars

\* exactly 24 hours before departure a confirm has passed the window test
ConfirmAtWindowStart ==
  \E r \in Reqs :
    /\ rq[r].pc = "confirm_insert"
    /\ MinutesToGo(rq[r].booking_id) = 1440

\* the passengers linked to booking b
PassengersOf(b) ==
  {links[k].passenger_id : k \in {j \in 1..Len(links) : links[j].booking_id = b}}

\* booking b has a completed check-in
CheckedIn(b) ==
  \E c \in 1..Len(check_ins) :
    check_ins[c].booking_id = b /\ check_ins[c].status = "completed"

\* C17: a search that has resolved a booking of the caller (confirmed, last
\* name matched) and finds the window open answers with the booking and the
\* list of exactly its passengers, and its data carry the alreadyCheckedIn
\* flag exactly when the booking has a completed check-in.
SearchReturnsPassengers ==
  [][\A r \in Reqs :
       LET b == rq[r].booking_id
       IN (/\ rq[r].pc = "search_checkin"
           /\ bookings[b].status = "confirmed"
           /\ WindowOpen(b)
           /\ SearchCheckIn(r)) =>
            /\ resp'.kind = "Found"
            /\ Range(resp'.passengers) = PassengersOf(b)
            /\ Len(resp'.passengers) = Cardinality(PassengersOf(b))
            /\ resp'.alreadyCheckedIn <=> CheckedIn(b)
    ]_vars

---------------------------------------------------------------------------
(* Failure of check-in confirm *)

\* request r is a check-in confirm past its checks (its transaction has
\* written or is about to write) and this step answers it with the 500
ConfirmFails(r) ==
  /\ rq[r].pc \in {"confirm_insert", "confirm_seat", "confirm_commit"}
  /\ rq'[r].pc = "idle"
  /\ resp' = ConfirmFailed

\* the seat numbers of the links of booking b
SeatsOf(b) == [k \in LinkIdsOf(b) |-> links[k].seat_number]

\* C18: check-in confirm is all-or-nothing: when a write of its transaction
\* fails (the CheckIn insert or a seat update), the request leaves no row of
\* any table changed: the booking has no CheckIn row unless it had one
\* before, every link keeps its seat number, and nothing of the request is
\* left behind to become visible later.
ConfirmAllOrNothing ==
  /\ [](\A r \in Reqs : Free(r) => tx[r] = EmptyTx)
  /\ [][\A r \in Reqs :
          ConfirmFails(r) =>
            \A b \in {rq[r].booking_id} :
              /\ tables' = tables
              /\ CheckInCommitted(b)' <=> CheckInCommitted(b)
              /\ SeatsOf(b)' = SeatsOf(b)
              /\ tx'[r] = EmptyTx
       ]_vars

\* witness: a confirm of booking 1 has just failed inside the open window;
\* the booking has no CheckIn row and its passengers sit where the booking
\* put them
ConfirmFailedNothingWritten ==
  /\ resp = ConfirmFailed
  /\ \A r \in Reqs : Free(r)
  /\ WindowOpen(1)
  /\ ~CheckInCommitted(1)
  /\ SeatsOf(1) = (1 :> NullSeat @@ 2 :> <<"1", "a">>)

---------------------------------------------------------------------------
(* Seats after a cancel *)

\* this step answers cancel request r with success
CancelSucceeds(r) ==
  /\ rq[r].pc = "cancel_update"
  /\ rq'[r].pc = "idle"
  /\ resp'.kind = "Cancelled"

\* C19: a successful cancel of a booking with n passenger links leaves every
\* link and its seat number as it was, and raises by exactly n both the
\* available-seat count of create-booking and that of flight search for the
\* booking's flight.
CancelFreesSeats ==
  [][\A r \in Reqs :
       CancelSucceeds(r) =>
         \A b \in {rq[r].booking_id} :
           \A f \in {bookings[b].flight_id}, n \in {Cardinality(LinkIdsOf(b))} :
             /\ links' = links
             /\ AvailableSeats(f)' = AvailableSeats(f) + n
             /\ available_seats(f)' = available_seats(f) + n
    ]_vars

---------------------------------------------------------------------------
(* Classes outside the fare table *)

\* C20: a create request whose class is none of economy, business, first is
\* priced at the flight's base price and handled like an economy request:
\* its INSERT into bookings is accepted whenever the reference is free, and
\* the row it commits carries base_price times the number of passengers.
UnknownClassAsEconomy ==
  [][\A r \in Reqs :
       /\ \A ps \in LedgerPassengerLists, cls \in OpsClasses \ ClassEnum :
            (CreateSelect(r, 1, 1, ps, cls) /\ rq'[r].pc = "create_insert") =>
              rq'[r].price = flights[1].base_price
       /\ \A ref \in References :
            (/\ rq[r].class \notin ClassEnum
             /\ ~RefCommitted(ref)
             /\ CreateInsertBooking(r, ref)) =>
               /\ rq'[r].pc = "create_passenger"
               /\ tx'[r].booking[1].total_amount
                    = rq[r].price * Len(rq[r].passengers)
       /\ (CommitsBooking(r) /\ rq[r].class \notin ClassEnum) =>
            bookings'[Len(bookings')].total_amount
              = rq[r].price * Len(rq[r].passengers)
    ]_vars

---------------------------------------------------------------------------
(* SpecRefs: the reference generator.  Concurrent create requests whose
   generated references may coincide, and cancels. *)

\* the references the generator returns
RefsReferences == {"BKA01", "BKB02"}

RefsStep(r) ==
  \/ \E ref \in RefsReferences : CreateInsertBooking(r, ref)
  \/ CreatePassenger(r)
  \/ CreateCommit(r)
  \/ CreateReadBack(r)
  \/ CreateFault(r)
  \/ CancelStep(r)

RefsNext ==
  \/ \E r \in Reqs, ps \in {<<NewLee>>, <<Saved>>} :
       Slot(r) /\ RoomForBooking /\ CreateSelect(r, 1, 1, ps, "economy")
  \/ \E r \in Reqs, b \in 1..MaxBookings : Slot(r) /\ CancelSelect(r, 1, b)
  \/ \E r \in Reqs : RefsStep(r)

SpecRefs == Init /\ [][RefsNext]_vars

\* C21: no two booking rows share a booking reference, even when the
\* generator returns the same value for two create requests; a request whose
\* INSERT would store a reference that a committed row holds is answered with
\* a failure, changes no table and leaves nothing of its transaction behind.
ReferencesUnique ==
  /\ [](\A b1, b2 \in 1..Len(bookings) :
          bookings[b1].booking_reference = bookings[b2].booking_reference
            => b1 = b2)
  /\ [][\A r \in Reqs, ref \in RefsReferences :
          (CreateInsertBooking(r, ref) /\ RefCommitted(ref)) =>
            /\ resp' = DuplicateEntry
            /\ tables' = tables
            /\ tx'[r] = EmptyTx
            /\ Free(r)'
       ]_vars

\* witness: a create has just been refused for the reference that the one
\* committed booking holds
DuplicateRefused ==
  /\ resp = DuplicateEntry
  /\ Len(bookings) = 1
  /\ \A r \in Reqs : Free(r)

---------------------------------------------------------------------------
(* SpecRace: create requests alone, two at a time, on an aircraft whose
   capacity nobody changes. *)

RaceNext ==
  \/ \E r \in Reqs, ps \in LedgerPassengerLists :
       Slot(r) /\ RoomForBooking /\ CreateSelect(r, 1, 1, ps, "economy")
  \/ \E r \in Reqs : CreateStep(r)

SpecRace == Init /\ [][RaceNext]_vars

\* C22: two concurrent creates for one flight can both pass the capacity
\* check before either commits and then both commit.  The check of a create
\* passes exactly when the committed passengers plus its own fit the
\* capacity, whatever another open create has already inserted; the commit
\* adds the request's passengers without a second check; and a create that
\* has reached its commit ends by committing or with the 500 of a failed
\* statement, never with a capacity refusal.
RaceOverbooks ==
  [][\A r \in Reqs :
       /\ \A ps \in LedgerPassengerLists :
            CreateSelect(r, 1, 1, ps, "economy") =>
              (rq'[r].pc = "create_insert" <=> SeatsLeft(1) >= Len(ps))
       /\ CommitsBooking(r) =>
            PassengersBooked(1, Len(bookings))'
              = PassengersBooked(1, Len(bookings)) + Len(rq[r].passengers)
       /\ (rq[r].pc = "create_commit" /\ rq'[r] # rq[r]) =>
            CommitsBooking(r) \/ resp' = Reply("Internal")
    ]_vars

\* witness: both creates have committed on the aircraft of capacity 2 and the
\* flight carries more passengers than seats
RaceOverbooked ==
  /\ aircraft[flights[1].aircraft_id].capacity = 2
  /\ Len(bookings) = 2
  /\ \A b \in 1..2 : bookings[b].status = "confirmed"
  /\ PassengersBooked(1, Len(bookings)) > 2

---------------------------------------------------------------------------
(* The connection pool *)

\* request r runs a handler that checked a connection out with getConnection
Holding(r) == rq[r].op \in {"create", "cancel", "confirm"}

\* C23: every create, cancel and check-in confirm releases the connection
\* it checked out exactly once on every exit path: the connections checked
\* out are those of the requests still running, the step that ends such a
\* request gives exactly one connection back, a request refused in its first
\* step leaves the pool as it found it, and once all requests have finished
\* no connection is checked out.
ConnectionsReleased ==
  /\ [](inUse = Cardinality({r \in Reqs : Holding(r)}))
  /\ []((\A r \in Reqs : Free(r)) => inUse = 0)
  /\ [][/\ \A r \in Reqs : (Holding(r) /\ Free(r)') => inUse' = inUse - 1
        /\ (\A r \in Reqs : Holding(r)' <=> Holding(r)) => inUse' = inUse
       ]_vars

\* witness: a confirm has succeeded, a later request has ended in the catch
\* block, every request has finished and the pool is whole again
PoolWholeAfterFailure ==
  /\ \A r \in Reqs : Free(r)
  /\ CheckInCommitted(1)
  /\ resp.kind = "Internal"
  /\ inUse = 0

---------------------------------------------------------------------------
(* SpecPool: a burst of create requests, as many as the pool has
   connections.  The statements of a request between its capacity check and
   its commit use the request's own connection only, so they are run without
   interruption by another request; the requests interleave at getConnection
   and at the read-back, in any order. *)

\* the request slots of the burst
PoolReqs == 1..ConnectionLimit

\* the references the generator returns, one per request of the burst
PoolReferenceSeq ==
  <<"BKA01", "BKB02", "BKC03", "BKD04", "BKE05", "BKF06", "BKG07", "BKH08",
    "BKI09", "BKJ10">>

\* the flight's aircraft has a seat for every request of the burst
PoolInit ==
  /\ aircraft = [a \in AircraftIds |-> [capacity |-> ConnectionLimit]]
  /\ flights = [f \in FlightIds |->
                  [aircraft_id |-> 1, status |-> "scheduled",
                   base_price |-> 100, business_price |-> 250,
                   first_class_price |-> 400,
                   departure_datetime |-> 1500]]
  /\ bookings = <<>>
  /\ passengers = <<>>
  /\ links = <<>>
  /\ check_ins = <<>>
  /\ now = 0
  /\ rq = [r \in PoolReqs |-> NoArgs]
  /\ tx = [r \in PoolReqs |-> EmptyTx]
  /\ resp = NoResp
  /\ inUse = 0
  /\ sqlStrict \in BOOLEAN

\* request r is between its capacity check and its commit
InTransit(r) == rq[r].pc \in {"create_insert", "create_passenger", "create_commit"}

PoolNext ==
  \/ \E r \in PoolReqs :
       /\ Slot(r)
       /\ \A q \in PoolReqs : ~InTransit(q)
       /\ Len(bookings) < ConnectionLimit
       /\ CreateSelect(r, 1, 1, <<NewLee>>, "economy")
  \/ \E r \in PoolReqs :
       CreateInsertBooking(r, PoolReferenceSeq[Len(bookings) + 1])
  \/ \E r \in PoolReqs : CreatePassenger(r)
  \/ \E r \in PoolReqs : CreateCommit(r)
  \/ \E r \in PoolReqs :
       (\A q \in PoolReqs : ~InTransit(q)) /\ CreateReadBack(r)

SpecPool == PoolInit /\ [][PoolNext]_vars

\* the requests that hold their connection and wait in queryOne for a
\* second one
AwaitingReadBack == {r \in DOMAIN rq : rq[r].pc = "create_readback"}

\* C24: every request runs to completion; in particular no state is
\* reachable in which every connection of the pool is held by a create
\* request that is itself waiting for another connection of the pool.
PoolNeverExhaustedByWaiters ==
  ~(/\ inUse = ConnectionLimit
    /\ Cardinality(AwaitingReadBack) = ConnectionLimit)

---------------------------------------------------------------------------
(* SpecSerial: create requests one at a time, each finished before the
   next begins; nothing else touches the bookings or the aircraft. *)

\* passenger counts 1, 2 and 3 against a capacity of 2
SerialPassengerLists == {<<NewLee>>, <<NewLee, NewKim>>, <<NewLee, NewKim, NewLee>>}

\* the bookings table holds up to one row more than in the other
\* specifications
SerialRoom == Len(bookings) + OpenCreates <= MaxBookings

SerialNext ==
  \/ \E r \in Reqs, ps \in SerialPassengerLists, cls \in ClassEnum :
       Solo(r) /\ SerialRoom /\ CreateSelect(r, 1, 1, ps, cls)
  \/ \E r \in Reqs : CreateStep(r)

SpecSerial == Init /\ [][SerialNext]_vars

\* C25: when creates run one at a time and nothing else changes a booking's
\* status or the capacity, the passengers on non-cancelled bookings of a
\* flight never exceed the aircraft capacity, and a create commits only if
\* its passengers fit into the seats left.
SerialWithinCapacity ==
  /\ [](\A f \in FlightIds :
          PassengersBooked(f, Len(bookings))
            <= aircraft[flights[f].aircraft_id].capacity)
  /\ [][\A r \in Reqs :
          CommitsBooking(r) => SeatsLeft(1) >= Len(rq[r].passengers)]_vars

\* witness: the flight is full and a further create has just been refused
SerialFullAndRefused ==
  /\ PassengersBooked(1, Len(bookings)) = aircraft[flights[1].aircraft_id].capacity
  /\ Len(bookings) = 2
  /\ resp.kind = "CapacityExceeded"
  /\ resp.remaining = 0

---------------------------------------------------------------------------
(* Status of a booking *)

\* C26: cancelled is a terminal status: no step of any endpoint changes the
\* status of a booking that is cancelled, so a cancelled booking never counts
\* toward capacity again.
CancelledIsTerminal ==
  [][\A b \in 1..Len(bookings) :
       bookings[b].status = "cancelled" =>
         /\ bookings'[b].status = "cancelled"
         /\ BookedSeats(bookings[b].flight_id)' <= BookedSeats(bookings[b].flight_id)
    ]_vars

\* C27: every booking whose status is cancelled has payment_status
\* refunded, whichever endpoint moved it to cancelled.
CancelledIsRefunded ==
  \A b \in 1..Len(bookings) :
    bookings[b].status = "cancelled" => bookings[b].payment_status = "refunded"

---------------------------------------------------------------------------
(* Passenger links *)

\* C28: every booking's number_of_passengers equals the number of
\* booking_passengers rows linked to it, and no step adds a link to or
\* removes a link from a booking that exists.
PassengerCountMatchesLinks ==
  /\ [](\A b \in 1..Len(bookings) :
          bookings[b].number_of_passengers = Cardinality(LinkIdsOf(b)))
  /\ [][\A b \in 1..Len(bookings) :
          /\ LinkIdsOf(b)' = LinkIdsOf(b)
          /\ bookings'[b].number_of_passengers = bookings[b].number_of_passengers
          /\ \A k \in LinkIdsOf(b) : links'[k].passenger_id = links[k].passenger_id
       ]_vars

\* witness: a booking for two and a booking for one, the first cancelled, the
\* second checked in
TwoLinksAndOne ==
  /\ Len(bookings) = 2
  /\ bookings[1].status = "cancelled"
  /\ Cardinality(LinkIdsOf(1)) = 2
  /\ Cardinality(LinkIdsOf(2)) = 1
  /\ CheckInCommitted(2)

---------------------------------------------------------------------------
(* Failure responses of create-booking *)

\* this step ends create request r with a response other than the 201
CreateAnswersFailure(r) ==
  /\ rq[r].op = "create"
  /\ rq'[r] = NoArgs
  /\ resp'.kind # "Created"

\* C29: whenever create-booking answers with a failure, no booking row of
\* that request is persisted, also when the failure occurs after the commit,
\* while the handler reads the new booking back.
FailureLeavesNoBooking ==
  [][\A r \in Reqs :
       /\ CreateAnswersFailure(r) =>
            \A b \in 1..Len(bookings') : b # rq[r].booking_id
       /\ \A ps \in LedgerPassengerLists :
            (CreateSelect(r, 1, 1, ps, "economy") /\ rq'[r] = NoArgs) =>
              bookings' = bookings
    ]_vars

---------------------------------------------------------------------------
(* The status domain *)

\* the status values the handlers write
WrittenStatuses == {"confirmed", "cancelled", "completed", "missed", "pending"}

\* C30: every status value a handler writes belongs to the domain the schema
\* declares for bookings.status, so no status write is rejected and the row
\* holds the value written; in particular the missed transition of check-in
\* search, of check-in confirm and of user update-status is stored.
StatusWritesStored ==
  /\ [](\A b \in 1..Len(bookings) : bookings[b].status \in WrittenStatuses)
  /\ [][\A r \in Reqs :
          /\ (/\ rq[r].pc = "search_missed"
              /\ CheckInsOf(rq[r].booking_id) = {}
              /\ SearchMissed(r)) =>
               /\ resp'.kind = "Departed"
               /\ bookings'[rq[r].booking_id].status = "missed"
          /\ (rq[r].pc = "confirm_missed" /\ ConfirmMissed(r)) =>
               /\ resp'.kind = "Departed"
               /\ bookings'[rq[r].booking_id].status = "missed"
          /\ (OwnedBooking(1, 1) /\ UpdateStatus(r, 1, 1, "missed")) =>
               /\ resp'.kind = "Updated"
               /\ bookings'[1].status = "missed"
       ]_vars
=============================================================================
